---- MODULE Spec2Model ----
(***************************************************************************)
(* Polymarket Order Service (src/main.py): the order gateway               *)
(* (POST /place_order), the market resolver (resolve_token_id_via_gamma),  *)
(* and the tracking facade (/order_status, /orders_open, /fills,           *)
(* /cancel_order), and the cancel loop (src/cancel_orders.py), a separate   *)
(* process that cancels every open order every 30 seconds.                 *)
(*                                                                         *)
(* Every HTTP call is one action: the handler runs to completion, leaves   *)
(* its response, the outbound calls it made (in order) and the behaviour   *)
(* of the outside world it met in the state, and the server returns to     *)
(* idle (Finish) before it serves the next call.                           *)
(*                                                                         *)
(* Units: price_cents is held in tenths of a cent (34.5c = 345),           *)
(* price_prob in hundredths (0.34 = 34), size in whole shares, notional in *)
(* hundredths of a dollar ($1 = 100).                                      *)
(***************************************************************************)
EXTENDS Integers, Sequences, FiniteSets, TLC

VARIABLES
    DRY_RUN,           \* main.py:34
    SHEETS_SECRET,     \* main.py:35
    PRIVATE_KEY,       \* main.py:30, as [has0x, len]
    POLYMARKET_PROXY,  \* main.py:39, as [has0x, len]
    CHAIN_ID,          \* main.py:33
    SIGNATURE_TYPE,    \* main.py:38
    phase,             \* "idle" | "done"
    endpoint,          \* the route of the call being served
    x_api_key,         \* the x-api-key header of the call (None when absent)
    inp,               \* the body / query of the call
    env,               \* what the outside world did during the call
    response,          \* the HTTP response of the call
    calls,             \* the outbound calls the handler made, in order
    market_info,       \* place_order's local market_info (main.py:297)
    live_order,        \* the arguments place_live_limit_order was entered with
    loop_pc,           \* cancel_orders.py: "off" | "load" | "exited" | "scan" | "sleep"
    open_orders,       \* cancel_orders.py:20, as fetched by the latest scan
    cancel_attempts,   \* the order ids the latest scan called cancel_order with
    scan_error,        \* the exception the latest scan logged ("" when none)
    slept              \* seconds slept since the latest scan

config == <<DRY_RUN, SHEETS_SECRET, PRIVATE_KEY, POLYMARKET_PROXY, CHAIN_ID,
            SIGNATURE_TYPE>>
server == <<phase, endpoint, x_api_key, inp, env, response, calls, market_info,
            live_order>>
loop == <<loop_pc, open_orders, cancel_attempts, scan_error, slept>>
vars == <<DRY_RUN, SHEETS_SECRET, PRIVATE_KEY, POLYMARKET_PROXY, CHAIN_ID,
          SIGNATURE_TYPE, phase, endpoint, x_api_key, inp, env, response,
          calls, market_info, live_order, loop_pc, open_orders, cancel_attempts,
          scan_error, slept>>

\* Python's None, distinct from the empty string.
None == "<None>"

\* Python truthiness of an Optional[str].
Truthy(s) == s /= None /\ s /= ""

(***************************************************************************)
(* Bounds of the model.                                                    *)
(***************************************************************************)
\* Largest order size (whole shares) a request carries.
MaxSize == 12
\* Largest number of records in a directory response.
MaxRecords == 2
\* Largest number of open orders a scan of the cancel loop fetches.
MaxOpen == 3

(***************************************************************************)
(* Environment configuration (main.py:30-39).  A key or address is held as *)
(* the two things the code looks at: whether it starts with "0x" and its   *)
(* length.                                                                 *)
(***************************************************************************)
KeyLen == 66
ProxyLen == 42

Str(has0x, len) == [has0x |-> has0x, len |-> len]
Missing == Str(FALSE, 0)

PrivateKeys == {Missing, Str(TRUE, KeyLen), Str(FALSE, KeyLen), Str(TRUE, KeyLen - 2)}
Proxies == {Missing, Str(TRUE, ProxyLen), Str(FALSE, ProxyLen), Str(TRUE, ProxyLen - 2)}
ChainIds == {137, 80001, 80002, 1}
SignatureTypes == {0, 1, 2}
Secrets == {"", "s3cret"}

_assert_trading_ready_any_chain ==
    IF PRIVATE_KEY.len = 0 THEN "PRIVATE_KEY missing"
    ELSE IF ~PRIVATE_KEY.has0x \/ PRIVATE_KEY.len /= KeyLen THEN "PRIVATE_KEY malformed"
    ELSE IF POLYMARKET_PROXY.len = 0 \/ ~POLYMARKET_PROXY.has0x
            \/ POLYMARKET_PROXY.len /= ProxyLen THEN "POLYMARKET_PROXY missing/invalid"
    ELSE IF SIGNATURE_TYPE \notin {1, 2} THEN "SIGNATURE_TYPE"
    ELSE "ok"

\* _assert_trading_ready (main.py:41-51): the RuntimeError it raises, or "ok".
_assert_trading_ready ==
    IF PRIVATE_KEY.len = 0 THEN "PRIVATE_KEY missing"
    ELSE IF ~PRIVATE_KEY.has0x \/ PRIVATE_KEY.len /= KeyLen THEN "PRIVATE_KEY malformed"
    ELSE IF CHAIN_ID \notin {137, 80002, 80001} THEN "Unexpected CHAIN_ID"
    ELSE IF POLYMARKET_PROXY.len = 0 \/ ~POLYMARKET_PROXY.has0x
            \/ POLYMARKET_PROXY.len /= ProxyLen THEN "POLYMARKET_PROXY missing/invalid"
    ELSE IF SIGNATURE_TYPE \notin {1, 2} THEN "SIGNATURE_TYPE"
    ELSE "ok"

(***************************************************************************)
(* HTTP responses: [status, ok, error, cause, fallback, available, body].  *)
(* `error` names the message of the HTTPException (or the class of an      *)
(* exception nothing catches), `cause` the exception the message quotes,   *)
(* `fallback` the second cause of a combined message, `available` the      *)
(* outcome names an outcome-not-found message lists.                       *)
(***************************************************************************)
NoBody == [none |-> TRUE]

HTTPException(status, error) ==
    [status |-> status, ok |-> FALSE, error |-> error, cause |-> "",
     fallback |-> "", available |-> <<>>, body |-> NoBody]

\* An HTTPException whose message quotes the exception that caused it.
HTTPExceptionFrom(status, error, cause) ==
    [HTTPException(status, error) EXCEPT !.cause = cause]

\* An exception no handler catches: FastAPI's 500 Internal Server Error.
Uncaught(class, message) ==
    [HTTPException(500, class) EXCEPT !.cause = message]

\* A request FastAPI refuses before the handler runs: 422.
Unprocessable(what) ==
    [HTTPException(422, "RequestValidationError") EXCEPT !.cause = what]

Ok(body) ==
    [status |-> 200, ok |-> TRUE, error |-> "", cause |-> "", fallback |-> "",
     available |-> <<>>, body |-> body]

\* place_live_limit_order was not entered.
NotSubmitted == [reached |-> FALSE]

\* What a handler leaves behind: its response, the outbound calls it made, the
\* market_info it resolved, the arguments it entered place_live_limit_order
\* with, and whether it used the trading client.
Outcome(resp, made, info, live, client) ==
    [response |-> resp, calls |-> made, market_info |-> info, live_order |-> live,
     client |-> client]

\* `SHEETS_SECRET and x_api_key != SHEETS_SECRET` (main.py:266, 322, 354, 387, 430).
Unauthorized(key) == SHEETS_SECRET /= "" /\ key /= SHEETS_SECRET

(***************************************************************************)
(* PlaceOrderIn (main.py:119-150).  FastAPI builds the model from the JSON *)
(* body before the handler runs; a body that does not validate is answered *)
(* 422 and the handler is never entered.                                   *)
(***************************************************************************)
\* str.upper() on the side strings a caller sends.
Upper(v) ==
    CASE v = "buy" -> "BUY"
      [] v = "sell" -> "SELL"
      [] v = "Buy" -> "BUY"
      [] v = "hold" -> "HOLD"
      [] OTHER -> v

\* The field's type, Side = Literal["BUY", "SELL"] (main.py:117, 123): pydantic
\* checks it first, and the (after-mode) field_validator only sees a value
\* that passed it.
SideLiteral(v) == v \in {"BUY", "SELL"}

\* v_side (main.py:128-134): [ok, value].
v_side(v) ==
    LET v2 == Upper(v)
    IN  IF v2 \notin {"BUY", "SELL"} THEN [ok |-> FALSE, value |-> v]
        ELSE [ok |-> TRUE, value |-> v2]

\* v_price_cents (main.py:136-142): 0.5 <= f <= 99.5, in tenths of a cent.
v_price_cents(v) == [ok |-> (5 <= v /\ v <= 995), value |-> v]

\* v_size (main.py:144-150): f > 0.
v_size(v) == [ok |-> ~(v <= 0), value |-> v]

\* The model built from a raw body: [ok, error, value].
PlaceOrderIn(raw) ==
    IF ~SideLiteral(raw.side)
    THEN [ok |-> FALSE, error |-> "side: literal_error", value |-> raw]
    ELSE IF ~v_side(raw.side).ok
    THEN [ok |-> FALSE, error |-> "side must be BUY or SELL", value |-> raw]
    ELSE IF ~v_price_cents(raw.price_cents).ok
    THEN [ok |-> FALSE, error |-> "price_cents must be between 0.5 and 99.5",
          value |-> raw]
    ELSE IF ~v_size(raw.size).ok
    THEN [ok |-> FALSE, error |-> "size must be > 0", value |-> raw]
    ELSE [ok |-> TRUE, error |-> "",
          value |-> [raw EXCEPT !.side = v_side(raw.side).value]]

(***************************************************************************)
(* _normalize_price (main.py:152-156): round(float(prob_cents) / 100.0, 2).*)
(* Away from a half cent the result is the nearest hundredth.  At a half   *)
(* cent (x.5c) the double nearest to x.5/100 lies just above or just below *)
(* the decimal tie (or on it: 12.5, 37.5, 62.5, 87.5, where round() goes   *)
(* to the even hundredth), and round() follows the double: TiesUp are the  *)
(* half cents, in tenths of a cent, that CPython rounds up.                *)
(***************************************************************************)
TiesUp ==
    {5, 25, 35, 55, 65, 85, 95, 115, 135, 165, 195, 225, 255, 265, 275, 315,
     325, 335, 375, 385, 395, 405, 445, 455, 465, 505, 515, 525, 535, 545,
     555, 635, 645, 655, 665, 675, 685, 755, 765, 775, 785, 795, 805, 875,
     885, 895, 905, 915, 925, 935}

_normalize_price(prob_cents) ==
    LET q == prob_cents \div 10
        r == prob_cents % 10
    IN  IF r < 5 THEN q
        ELSE IF r > 5 THEN q + 1
        ELSE IF prob_cents \in TiesUp THEN q + 1 ELSE q

(***************************************************************************)
(* The $1 notional guard (main.py:274-275), in hundredths of a dollar.     *)
(* The code multiplies doubles: the product is below 1.0 exactly when the  *)
(* decimal product is, except where the decimal product is exactly 1 and   *)
(* 1.0 - price_prob is a double just short of the decimal (SELL at 0.80    *)
(* for 5 shares, SELL at 0.90 for 10 shares: 0.9999999999999998).          *)
(***************************************************************************)
\* The notional as the spec defines it, exact.
Notional(side, price_prob, size) ==
    (IF side = "BUY" THEN price_prob ELSE 100 - price_prob) * size

FloatShort == {<<"SELL", 80, 5>>, <<"SELL", 90, 10>>}

BelowMinimum_buy_formula(side, price_prob, size) == price_prob * size < 100

BelowMinimum_half_dollar(side, price_prob, size) ==
    Notional(side, price_prob, size) < 50

\* `notional < 1.0` as the code evaluates it.
BelowMinimum(side, price_prob, size) ==
    \/ Notional(side, price_prob, size) < 100
    \/ <<side, price_prob, size>> \in FloatShort

(***************************************************************************)
(* Gamma API resolution (main.py:158-227).                                 *)
(*                                                                         *)
(* A field of a directory record is held with its encoding: absent (None), *)
(* a native list, a string holding a JSON list, a string holding JSON that *)
(* is not a list, or a string that is not JSON, held as the pieces         *)
(* str.split(",") cuts it into (blanks and empty pieces included).         *)
(***************************************************************************)
Absent == [enc |-> "absent", items |-> <<>>]
ListV(items) == [enc |-> "list", items |-> items]
JsonV(items) == [enc |-> "json", items |-> items]
JsonNonList == [enc |-> "json_nonlist", items |-> <<>>]
CsvV(pieces) == [enc |-> "csv", items |-> pieces]

\* str.strip() on the strings the model uses.
Strip(x) ==
    CASE x = " No " -> "No"
      [] x = "NO " -> "NO"
      [] x = " Yes" -> "Yes"
      [] x = " 888" -> "888"
      [] x = " " -> ""
      [] OTHER -> x

\* str.lower() on the strings the model uses.
Lower(x) ==
    CASE x = "Yes" -> "yes"
      [] x = "YES" -> "yes"
      [] x = "No" -> "no"
      [] x = "NO" -> "no"
      [] x = "N" -> "n"
      [] x = "Maybe" -> "maybe"
      [] OTHER -> x

\* float(p) succeeds on these price strings and raises ValueError on others.
Floatable(x) == x \in {"0.5", "0.35", "0.65"}

\* _as_list (main.py:159-171).
_as_list(v) ==
    CASE v.enc = "absent" -> <<>>
      [] v.enc = "list" -> v.items
      [] v.enc = "json" -> v.items
      [] v.enc = "json_nonlist" -> <<>>
      [] v.enc = "csv" ->
            LET NonBlank(x) == Strip(x) /= ""
                kept == SelectSeq(v.items, NonBlank)
            IN  [i \in 1..Len(kept) |-> Strip(kept[i])]
      [] OTHER -> <<>>

\* `a or b` on lists.
OrList(a, b) == IF a /= <<>> THEN a ELSE b

\* `a or b` on Optional[str].
OrStr(a, b) == IF Truthy(a) THEN a ELSE b

NoBest == [found |-> FALSE, raised |-> FALSE]

\* The record the loop builds at main.py:194-200 for m.
BestOf(m) ==
    LET prices == _as_list(m.outcomePrices)
    IN  IF \E i \in 1..Len(prices) : ~Floatable(prices[i])
        THEN [found |-> FALSE, raised |-> TRUE]
        ELSE [found |-> TRUE, raised |-> FALSE,
              slug |-> m.slug,
              question |-> OrStr(OrStr(m.question, m.title), "(no title)"),
              outcomes |-> OrList(OrList(_as_list(m.outcomes),
                                         _as_list(m.outcomeNames)),
                                  _as_list(m.shortOutcomes)),
              token_ids |-> _as_list(m.clobTokenIds)]

\* The loop at main.py:184-201 from record k on: the first record with token
\* ids, and the loop breaks there.
RECURSIVE ScanBest(_, _)
ScanBest_last(data, k) ==
    IF k > Len(data) THEN NoBest
    ELSE LET later == ScanBest(data, k + 1)
         IN  IF later.found \/ later.raised \/ _as_list(data[k].clobTokenIds) = <<>>
             THEN later
             ELSE BestOf(data[k])

ScanBest(data, k) ==
    IF k > Len(data) THEN NoBest
    ELSE IF _as_list(data[k].clobTokenIds) /= <<>> THEN BestOf(data[k])
    ELSE ScanBest(data, k + 1)

\* The loop at main.py:209-212 from name i on: the first index (from 1) whose
\* name equals target after strip().lower(), 0 when there is none.
RECURSIVE MatchIndex(_, _, _)
MatchIndex(names, target, i) ==
    IF i > Len(names) THEN 0
    ELSE IF Lower(Strip(names[i])) = target THEN i
    ELSE MatchIndex(names, target, i + 1)

\* market_info = None.
NoInfo == [resolved |-> FALSE]

Resolved(info, made) == [ok |-> TRUE, info |-> info, error |-> NoBody, calls |-> made]
Raised(error, made) == [ok |-> FALSE, info |-> NoInfo, error |-> error, calls |-> made]

GammaCall == "gamma:GET /markets"

\* `names` at main.py:207.
NamesOf(best) == IF best.outcomes /= <<>> THEN best.outcomes ELSE <<"Yes", "No">>

\* `target` at main.py:206.
TargetOf(outcome_name) == Lower(Strip(OrStr(outcome_name, "")))

\* resolve_token_id_via_gamma (main.py:173-227); g is the directory's answer.
resolve_token_id_via_gamma(slug, outcome_name, g) ==
    IF ~Truthy(slug)
    THEN Raised(HTTPException(400, "slug is required"), <<>>)
    ELSE IF g.kind = "neterr"
    THEN Raised(HTTPException(502, "Network error"), <<GammaCall>>)
    ELSE IF g.status /= 200
    THEN Raised(HTTPException(502, "Gamma API error"), <<GammaCall>>)
    ELSE IF g.data.type /= "list" \/ g.data.items = <<>>
    THEN Raised(HTTPException(404, "No markets returned"), <<GammaCall>>)
    ELSE
      LET best == ScanBest(g.data.items, 1)
      IN  IF best.raised
          THEN Raised(Uncaught("ValueError", "could not convert string to float"),
                      <<GammaCall>>)
          ELSE IF ~best.found
          THEN Raised(HTTPException(404, "Could not find outcome token IDs"),
                      <<GammaCall>>)
          ELSE
            LET names == NamesOf(best)
                try_idx == MatchIndex(names, TargetOf(outcome_name), 1)
            IN  IF try_idx = 0
                THEN Raised([HTTPException(404, "Outcome not found")
                                EXCEPT !.available = names],
                            <<GammaCall>>)
                ELSE IF try_idx > Len(best.token_ids)
                THEN Raised(Uncaught("IndexError", "list index out of range"),
                            <<GammaCall>>)
                ELSE Resolved([resolved |-> TRUE,
                               token_id |-> best.token_ids[try_idx],
                               market_slug |-> best.slug,
                               question |-> best.question,
                               outcome_index |-> try_idx - 1,
                               outcome_name |-> names[try_idx]],
                              <<GammaCall>>)

(***************************************************************************)
(* The trading client (py-clob-client) and the venue's REST API.           *)
(*                                                                         *)
(* A use of the client is import, ClobClient(...), create_or_derive_api_   *)
(* creds(), [create_order()], then the operation.  `f` names the step that *)
(* raises ("none": no step does).  Import and construction are local; the  *)
(* other steps go to the venue.                                            *)
(***************************************************************************)
CredsCall == "clob:create_or_derive_api_creds"
CreateOrderCall == "clob:create_order"

\* The venue calls a use of the client makes when step f raises; `op` is the
\* operation's call and `create` says whether create_order precedes it.
ClientCalls(f, create, op) ==
    CASE f \in {"import", "construct"} -> <<>>
      [] f = "creds" -> <<CredsCall>>
      [] f = "create" -> <<CredsCall, CreateOrderCall>>
      [] OTHER -> IF create THEN <<CredsCall, CreateOrderCall, op>>
                  ELSE <<CredsCall, op>>

\* Account.from_key accepts a 32-byte hex key, with or without 0x.
Usable(k) == (k.has0x /\ k.len = KeyLen) \/ (~k.has0x /\ k.len = KeyLen - 2)

\* The steps that can raise under the configured key: without a key the client
\* is built without a signer and cannot derive credentials; with a key that is
\* no private key its construction raises.
ClientFailures(steps) ==
    IF PRIVATE_KEY.len = 0 THEN steps \cap {"import", "creds"}
    ELSE IF ~Usable(PRIVATE_KEY) THEN steps \cap {"import", "construct"}
    ELSE steps

\* _trade_address (main.py:66-73): [ok, addr].
_trade_address ==
    IF POLYMARKET_PROXY.len > 0 THEN [ok |-> TRUE, addr |-> "proxy"]
    ELSE IF Usable(PRIVATE_KEY) THEN [ok |-> TRUE, addr |-> "eoa"]
    ELSE [ok |-> FALSE, addr |-> ""]

\* An answer of an HTTP server, or none (a network error or a timeout).
NetErr == [kind |-> "neterr", status |-> 0]
Http(status) == [kind |-> "http", status |-> status]

NoGamma == [kind |-> "unused", status |-> 0, data |-> [type |-> "null", items |-> <<>>]]
GammaErr == [kind |-> "neterr", status |-> 0, data |-> [type |-> "null", items |-> <<>>]]
GammaHttp(status, type, items) ==
    [kind |-> "http", status |-> status, data |-> [type |-> type, items |-> items]]
NoRest == [kind |-> "unused", status |-> 0]

\* What the outside world did during a call: the client step that raised, the
\* REST answer and the directory answer, each "unused" when not consulted.
Env(client, rest, gamma) == [client |-> client, rest |-> rest, gamma |-> gamma]
NoEnv == Env("unused", NoRest, NoGamma)

(***************************************************************************)
(* place_live_limit_order (main.py:230-261): [ok, response, calls].        *)
(***************************************************************************)
PostOrderCall == "clob:post_order"

place_live_limit_order(token_id, side, price, size, f) ==
    IF f = "import"
    THEN [ok |-> FALSE, calls |-> <<>>,
          response |-> HTTPExceptionFrom(500, "py-clob-client import failed", f)]
    ELSE IF f /= "none"
    THEN [ok |-> FALSE, calls |-> ClientCalls(f, TRUE, PostOrderCall),
          response |-> HTTPExceptionFrom(500, "Order placement failed", f)]
    ELSE [ok |-> TRUE, calls |-> ClientCalls(f, TRUE, PostOrderCall),
          response |-> Ok([posted |-> <<token_id, side, price, size>>])]

(***************************************************************************)
(* POST /place_order (main.py:264-314); inp is the validated PlaceOrderIn. *)
(***************************************************************************)
\* `if DRY_RUN:` (main.py:279).
DryRunBranch_never == FALSE

DryRunBranch == DRY_RUN

\* The guard at main.py:298-300: the error of a request that names no token.
MissingIdentification(v) == ~Truthy(v.slug) \/ ~Truthy(v.outcome)

place_order(v, key, e) ==
    IF Unauthorized(key)
    THEN Outcome(HTTPException(401, "Unauthorized (x-api-key mismatch)"),
                 <<>>, NoInfo, NotSubmitted, FALSE)
    ELSE
      LET price_prob == _normalize_price(v.price_cents)
          side == v.side
          size == v.size
      IN  IF BelowMinimum(side, price_prob, size)
          THEN Outcome(HTTPException(400, "below $1 minimum"),
                       <<>>, NoInfo, NotSubmitted, FALSE)
          ELSE IF DryRunBranch
          THEN Outcome(Ok([dry_run |-> TRUE,
                           normalized |-> [side |-> side, token_id |-> v.token_id,
                                           slug |-> v.slug, outcome |-> v.outcome,
                                           price_prob |-> price_prob,
                                           size |-> size]]),
                       <<>>, NoInfo, NotSubmitted, FALSE)
          ELSE IF _assert_trading_ready /= "ok"
          THEN Outcome(Uncaught("RuntimeError", _assert_trading_ready),
                       <<>>, NoInfo, NotSubmitted, FALSE)
          ELSE IF ~Truthy(v.token_id) /\ MissingIdentification(v)
          THEN Outcome(HTTPException(400, "Provide either token_id OR (slug + outcome)."),
                       <<>>, NoInfo, NotSubmitted, FALSE)
          ELSE
            LET res == IF Truthy(v.token_id)
                       THEN Resolved(NoInfo, <<>>)
                       ELSE resolve_token_id_via_gamma(v.slug, v.outcome, e.gamma)
            IN  IF ~res.ok
                THEN Outcome(res.error, res.calls, NoInfo, NotSubmitted, FALSE)
                ELSE
                  LET token_id == IF Truthy(v.token_id) THEN v.token_id
                                  ELSE res.info.token_id
                      live == place_live_limit_order(token_id, side, price_prob,
                                                     size, e.client)
                      args == [reached |-> TRUE, token_id |-> token_id,
                               side |-> side, price |-> price_prob, size |-> size]
                  IN  IF ~live.ok
                      THEN Outcome(live.response, res.calls \o live.calls,
                                   res.info, args, TRUE)
                      ELSE Outcome(
                             Ok([dry_run |-> FALSE,
                                 result |-> live.response.body,
                                 token_id |-> token_id,
                                 slug |-> IF res.info.resolved
                                          THEN res.info.market_slug ELSE None,
                                 outcome |-> IF res.info.resolved
                                             THEN res.info.outcome_name
                                             ELSE v.outcome,
                                 price_prob |-> price_prob,
                                 size |-> size]),
                             res.calls \o live.calls, res.info, args, TRUE)

(***************************************************************************)
(* The tracking facade (main.py:316-448).                                  *)
(***************************************************************************)
GetOrderCall == "clob:get_order"
GetOpenOrdersCall == "clob:get_open_orders"
CancelOrderCall == "clob:cancel_order"
RestOrderCall == "rest:GET /data/order/{order_id}"
RestTradesCall(addr) ==
    IF addr = "proxy" THEN "rest:GET /trades?address=proxy"
    ELSE "rest:GET /trades?address=eoa"
RestOrdersCall(addr) ==
    IF addr = "proxy" THEN "rest:GET /orders?address=proxy&status=OPEN"
    ELSE "rest:GET /orders?address=eoa&status=OPEN"

\* The cause an exception of the REST fallback is quoted with.
RestCause(r) == IF r.kind = "neterr" THEN "RequestException" ELSE "CLOB status"

\* The 401 every protected route answers a wrong or absent x-api-key with.
Reject401 ==
    Outcome(HTTPException(401, "Unauthorized (x-api-key mismatch)"),
            <<>>, NoInfo, NotSubmitted, FALSE)

\* The error of order_status when the fallback fails too (main.py:349),
\* "order_status failed: {e} | fallback: {e2}".
BothFailed_last_only(f, r) ==
    [HTTPException(500, "order_status failed") EXCEPT !.cause = RestCause(r)]

BothFailed(f, r) ==
    [HTTPException(500, "order_status failed")
        EXCEPT !.cause = f, !.fallback = RestCause(r)]

\* GET /order_status (main.py:317-349).
order_status(order_id, key, e) ==
    IF Unauthorized(key) THEN Reject401
    ELSE IF e.client = "none"
    THEN Outcome(Ok([order |-> "client.get_order"]),
                 ClientCalls("none", FALSE, GetOrderCall), NoInfo, NotSubmitted, TRUE)
    ELSE
      LET made == ClientCalls(e.client, FALSE, GetOrderCall) \o <<RestOrderCall>>
      IN  IF e.rest.kind = "http" /\ e.rest.status = 200
          THEN Outcome(Ok([order |-> "r.json()"]), made, NoInfo, NotSubmitted, TRUE)
          ELSE Outcome(BothFailed(e.client, e.rest), made, NoInfo, NotSubmitted, TRUE)

\* The inner `except Exception:` of orders_open (main.py:367-369): the primary
\* failures after which the REST fallback runs.
OpenFallsBack_any(f) == f /= "none"

OpenFallsBack(f) == f = "op"

\* GET /orders_open (main.py:352-382).
orders_open(key, e) ==
    IF Unauthorized(key) THEN Reject401
    ELSE IF e.client = "none"
    THEN Outcome(Ok([orders |-> "client.get_open_orders"]),
                 ClientCalls("none", FALSE, GetOpenOrdersCall),
                 NoInfo, NotSubmitted, TRUE)
    ELSE IF ~OpenFallsBack(e.client)
    THEN Outcome(HTTPExceptionFrom(500, "orders_open failed", e.client),
                 ClientCalls(e.client, FALSE, GetOpenOrdersCall),
                 NoInfo, NotSubmitted, TRUE)
    ELSE
      LET primary == ClientCalls(e.client, FALSE, GetOpenOrdersCall)
          addr == _trade_address
          made == primary \o <<RestOrdersCall(addr.addr)>>
      IN  IF ~addr.ok
          THEN Outcome(HTTPExceptionFrom(500, "orders_open failed", "Account.from_key"),
                       primary, NoInfo, NotSubmitted, TRUE)
          ELSE IF e.rest.kind = "http" /\ e.rest.status = 200
          THEN Outcome(Ok([orders |-> "r.json()"]), made, NoInfo, NotSubmitted, TRUE)
          ELSE Outcome(HTTPExceptionFrom(500, "orders_open failed", RestCause(e.rest)),
                       made, NoInfo, NotSubmitted, TRUE)

\* The status fills answers a non-200 venue status with (main.py:397-398).
FillsErrorStatus(status) == status

\* GET /fills (main.py:385-399).
fills(key, e) ==
    IF Unauthorized(key) THEN Reject401
    ELSE
      LET addr == _trade_address
          made == <<RestTradesCall(addr.addr)>>
      IN  IF ~addr.ok
          THEN Outcome(Uncaught("Exception", "Account.from_key"),
                       <<>>, NoInfo, NotSubmitted, FALSE)
          ELSE IF e.rest.kind = "neterr"
          THEN Outcome(HTTPException(502, "Network error"),
                       made, NoInfo, NotSubmitted, FALSE)
          ELSE IF e.rest.status /= 200
          THEN Outcome(HTTPException(FillsErrorStatus(e.rest.status), "CLOB status"),
                       made, NoInfo, NotSubmitted, FALSE)
          ELSE Outcome(Ok([fills |-> "r.json()"]), made, NoInfo, NotSubmitted, FALSE)

\* GET /cancel_order (main.py:425-448).
cancel_order(order_id, key, e) ==
    IF Unauthorized(key) THEN Reject401
    ELSE IF _assert_trading_ready /= "ok"
    THEN Outcome(Uncaught("RuntimeError", _assert_trading_ready),
                 <<>>, NoInfo, NotSubmitted, FALSE)
    ELSE IF e.client /= "none"
    THEN Outcome(HTTPExceptionFrom(500, "cancel_order failed", e.client),
                 ClientCalls(e.client, FALSE, CancelOrderCall),
                 NoInfo, NotSubmitted, TRUE)
    ELSE Outcome(Ok([result |-> "client.cancel_order"]),
                 ClientCalls("none", FALSE, CancelOrderCall),
                 NoInfo, NotSubmitted, TRUE)

(***************************************************************************)
(* The inputs of the model: what callers send and what the outside world   *)
(* answers.                                                                *)
(***************************************************************************)
\* A directory record.
Record(slug, question, title, outcomes, names, short, token_ids, prices) ==
    [slug |-> slug, question |-> question, title |-> title, outcomes |-> outcomes,
     outcomeNames |-> names, shortOutcomes |-> short, clobTokenIds |-> token_ids,
     outcomePrices |-> prices]

YesNo == <<"Yes", "No">>

\* The plain binary market of the spec's example.
RecPlain ==
    Record("will-x", "Will X?", None, ListV(YesNo), Absent, Absent,
           ListV(<<"111", "222">>), ListV(<<"0.35", "0.65">>))
\* JSON-encoded fields, outcomes under outcomeNames, title instead of question.
RecJson ==
    Record("will-x-json", None, "X?", Absent, JsonV(YesNo), Absent,
           JsonV(<<"333", "444">>), JsonV(<<"0.5", "0.5">>))
\* No token ids.
RecNoTokens ==
    Record("will-x-draft", "Draft?", None, ListV(YesNo), Absent, Absent, Absent, Absent)
\* Token ids but no outcome names: the ["Yes", "No"] default applies.
RecNoNames ==
    Record("will-x-bare", None, None, Absent, JsonNonList, CsvV(<<"">>),
           ListV(<<"555", "666">>), Absent)
\* Comma-separated fields.
RecCsv ==
    Record("will-x-csv", "Csv?", None, Absent, Absent, CsvV(<<" Yes", " No ", " ", "">>),
           CsvV(<<"777", " 888">>), Absent)
\* More outcome names than token ids.
RecShortTokens ==
    Record("will-x-3way", "3way?", None, ListV(<<"Yes", "No", "Maybe">>), Absent, Absent,
           ListV(<<"901">>), Absent)
\* Token ids that are JSON but no list: _as_list gives [].
RecBadTokens ==
    Record("will-x-odd", "Odd?", None, ListV(<<"No", "Yes">>), Absent, Absent,
           JsonNonList, Absent)
\* The same outcome name twice (differing in case).
RecTwice ==
    Record("will-x-twice", "Twice?", None, ListV(<<"Maybe", "NO", "No">>), Absent, Absent,
           ListV(<<"a1", "a2", "a3">>), Absent)
\* A price float() does not parse.
RecBadPrice ==
    Record("will-x-price", "Price?", None, ListV(YesNo), Absent, Absent,
           ListV(<<"b1", "b2">>), ListV(<<"0.5", "n/a">>))

\* One token id and no outcome names: the ["Yes", "No"] default is longer than
\* the token-id list.
RecOneToken ==
    Record("will-x-single", "Single?", None, Absent, Absent, Absent,
           ListV(<<"c1">>), Absent)

Records ==
    {RecPlain, RecJson, RecNoTokens, RecNoNames, RecCsv, RecShortTokens,
     RecBadTokens, RecTwice, RecBadPrice, RecOneToken}

\* Every directory answer of at most MaxRecords records, the answers that are
\* no list, a non-200 status and a network error.
GammasAll ==
    {GammaErr, GammaHttp(503, "null", <<>>), GammaHttp(200, "null", <<>>),
     GammaHttp(200, "dict", <<>>)}
    \cup {GammaHttp(200, "list", items) :
            items \in UNION {[1..n -> Records] : n \in 0..MaxRecords}}

\* The few directory answers the gateway is run against.
GammasFew ==
    {GammaErr, GammaHttp(503, "null", <<>>), GammaHttp(200, "list", <<>>),
     GammaHttp(200, "list", <<RecNoTokens, RecPlain>>)}

OutcomeNames == {None, "", "no", "NO ", "Yes", "N", "Maybe"}

\* The steps of a use of the trading client that can raise.
TrackSteps == {"none", "import", "construct", "creds", "op"}
PlaceSteps == TrackSteps \cup {"create"}

RestAnswers == {NetErr, Http(200), Http(401), Http(500)}

ApiKeys == {None, "s3cret", "wrong"}

Body(token_id, slug, outcome, side, price_cents, size) ==
    [token_id |-> token_id, slug |-> slug, outcome |-> outcome, side |-> side,
     price_cents |-> price_cents, size |-> size]

\* How a request names its market: <<token_id, slug, outcome>>.
Identifications ==
    {<<"abc", None, None>>, <<None, "will-x", "no">>, <<None, None, None>>,
     <<None, "will-x", None>>, <<"", "", "Yes">>}

\* The requests the gateway is run against under every configuration.
BodiesFew ==
    {Body(id[1], id[2], id[3], side, price_cents, size) :
        id \in Identifications, side \in {"BUY", "SELL", "buy"},
        price_cents \in {100, 900}, size \in {5, 10}}

\* price_cents values, in tenths of a cent: out of range, the ends of the
\* range, half cents that round up, down and to even, values off the tick.
PriceInputs ==
    {0, 4, 5, 15, 95, 100, 125, 204, 345, 346, 375, 500, 800, 900, 995, 996}

\* The requests the normalizer is run against.
BodiesMany ==
    {Body(id[1], id[2], id[3], side, price_cents, size) :
        id \in {<<"abc", None, None>>, <<None, "will-x", "no">>},
        side \in {"BUY", "SELL", "buy", "hold"},
        price_cents \in PriceInputs,
        size \in 0..MaxSize}

(***************************************************************************)
(* The state machine.                                                      *)
(***************************************************************************)
NoInp == [none |-> TRUE]

Idle ==
    /\ phase = "idle"
    /\ endpoint = "none"
    /\ x_api_key = None
    /\ inp = NoInp
    /\ env = NoEnv
    /\ response = NoBody
    /\ calls = <<>>
    /\ market_info = NoInfo
    /\ live_order = NotSubmitted

\* cancel_orders.py is not running.
LoopOff ==
    /\ loop_pc = "off"
    /\ open_orders = <<>>
    /\ cancel_attempts = <<>>
    /\ scan_error = ""
    /\ slept = 0

\* The service as deployed: any configuration of the environment.
Init ==
    /\ DRY_RUN \in BOOLEAN
    /\ SHEETS_SECRET \in Secrets
    /\ PRIVATE_KEY \in PrivateKeys
    /\ POLYMARKET_PROXY \in Proxies
    /\ CHAIN_ID \in ChainIds
    /\ SIGNATURE_TYPE \in SignatureTypes
    /\ Idle
    /\ LoopOff

\* The calls of `made` that are among `which`.
Made(made, which) == \E i \in 1..Len(made) : made[i] \in which

RestCalls ==
    {RestOrderCall, RestOrdersCall("proxy"), RestOrdersCall("eoa"),
     RestTradesCall("proxy"), RestTradesCall("eoa")}

\* The part of the outside world's behaviour `e` the handler met.
Met(e, out) ==
    Env(IF out.client THEN e.client ELSE "unused",
        IF Made(out.calls, RestCalls) THEN e.rest ELSE NoRest,
        IF Made(out.calls, {GammaCall}) THEN e.gamma ELSE NoGamma)

\* The call is served: its response and traces are left in the state.
Serve(route, key, body, e, out) ==
    /\ phase' = "done"
    /\ endpoint' = route
    /\ x_api_key' = key
    /\ inp' = body
    /\ env' = Met(e, out)
    /\ response' = out.response
    /\ calls' = out.calls
    /\ market_info' = out.market_info
    /\ live_order' = out.live_order
    /\ UNCHANGED <<config, loop>>

Refused(what) == Outcome(Unprocessable(what), <<>>, NoInfo, NotSubmitted, FALSE)

\* POST /place_order with a body of Bodies.
PlaceOrder(Bodies, Gammas) ==
    /\ phase = "idle"
    /\ \E raw \in Bodies, key \in ApiKeys :
          LET parsed == PlaceOrderIn(raw)
          IN  IF ~parsed.ok
              THEN Serve("place_order", key, raw, NoEnv, Refused(parsed.error))
              ELSE \E f \in ClientFailures(PlaceSteps), g \in Gammas :
                      Serve("place_order", key, raw, Env(f, NoRest, g),
                            place_order(parsed.value, key, Env(f, NoRest, g)))

OrderIds == {None, "0xorder"}

\* GET /order_status; order_id is a required query parameter.
OrderStatus ==
    /\ phase = "idle"
    /\ \E order_id \in OrderIds, key \in ApiKeys :
          IF order_id = None
          THEN Serve("order_status", key, [order_id |-> order_id], NoEnv,
                     Refused("order_id: missing"))
          ELSE \E f \in ClientFailures(TrackSteps), r \in RestAnswers :
                  Serve("order_status", key, [order_id |-> order_id],
                        Env(f, r, NoGamma),
                        order_status(order_id, key, Env(f, r, NoGamma)))

\* GET /orders_open.
OrdersOpen ==
    /\ phase = "idle"
    /\ \E key \in ApiKeys, f \in ClientFailures(TrackSteps), r \in RestAnswers :
          Serve("orders_open", key, NoInp, Env(f, r, NoGamma),
                orders_open(key, Env(f, r, NoGamma)))

\* GET /fills.
Fills ==
    /\ phase = "idle"
    /\ \E key \in ApiKeys, r \in RestAnswers :
          Serve("fills", key, NoInp, Env("unused", r, NoGamma),
                fills(key, Env("unused", r, NoGamma)))

\* GET /cancel_order; order_id is a required query parameter.
CancelOrder ==
    /\ phase = "idle"
    /\ \E order_id \in OrderIds, key \in ApiKeys :
          IF order_id = None
          THEN Serve("cancel_order", key, [order_id |-> order_id], NoEnv,
                     Refused("order_id: missing"))
          ELSE \E f \in ClientFailures(TrackSteps) :
                  Serve("cancel_order", key, [order_id |-> order_id],
                        Env(f, NoRest, NoGamma),
                        cancel_order(order_id, key, Env(f, NoRest, NoGamma)))

\* resolve_token_id_via_gamma, called on its own.
Resolve ==
    /\ phase = "idle"
    /\ \E slug \in {"", "will-x"}, outcome \in OutcomeNames, g \in GammasAll :
          LET res == resolve_token_id_via_gamma(slug, outcome, g)
              out == Outcome(IF res.ok THEN Ok(res.info) ELSE res.error,
                             res.calls, res.info, NotSubmitted, FALSE)
          IN  Serve("resolve", None, [slug |-> slug, outcome |-> outcome],
                    Env("unused", NoRest, g), out)

\* The response is sent; the call's working data is discarded.
Finish ==
    /\ phase = "done"
    /\ phase' = "idle"
    /\ endpoint' = "none"
    /\ x_api_key' = None
    /\ inp' = NoInp
    /\ env' = NoEnv
    /\ response' = NoBody
    /\ calls' = <<>>
    /\ market_info' = NoInfo
    /\ live_order' = NotSubmitted
    /\ UNCHANGED <<config, loop>>

PlaceOrderFew == PlaceOrder(BodiesFew, GammasFew)

Next ==
    \/ PlaceOrderFew
    \/ OrderStatus
    \/ OrdersOpen
    \/ Fills
    \/ CancelOrder
    \/ Finish

Spec == Init /\ [][Next]_vars

\* The gateway alone, under a ready and an unready configuration, run against
\* the normalizer's inputs.
InitNorm ==
    /\ DRY_RUN \in BOOLEAN
    /\ SHEETS_SECRET \in Secrets
    /\ PRIVATE_KEY \in {Missing, Str(TRUE, KeyLen)}
    /\ POLYMARKET_PROXY = Str(TRUE, ProxyLen)
    /\ CHAIN_ID = 137
    /\ SIGNATURE_TYPE = 2
    /\ Idle
    /\ LoopOff

PlaceOrderMany == PlaceOrder(BodiesMany, GammasFew)

NextNorm ==
    \/ PlaceOrderMany
    \/ Finish

SpecNorm == InitNorm /\ [][NextNorm]_vars

\* The resolver alone, run against every directory answer.
InitResolve ==
    /\ DRY_RUN = FALSE
    /\ SHEETS_SECRET = ""
    /\ PRIVATE_KEY = Str(TRUE, KeyLen)
    /\ POLYMARKET_PROXY = Str(TRUE, ProxyLen)
    /\ CHAIN_ID = 137
    /\ SIGNATURE_TYPE = 2
    /\ Idle
    /\ LoopOff

NextResolve ==
    \/ Resolve
    \/ Finish

SpecResolve == InitResolve /\ [][NextResolve]_vars

(***************************************************************************)
(* The cancel loop (src/cancel_orders.py), a process of its own with its   *)
(* own trading client.                                                     *)
(***************************************************************************)
\* time.sleep(30) (cancel_orders.py:38).
SleepSeconds == 30

\* The ids of the orders open at the venue.
OpenOrderIds == {"0xa1", "0xb2", "0xc3", "0xd4"}

\* What client.get_open_orders() can return: up to MaxOpen orders, each once.
OpenOrderLists ==
    {os \in UNION {[1..n -> OpenOrderIds] : n \in 0..MaxOpen} :
        \A i, j \in 1..Len(os) : os[i] = os[j] => i = j}

\* What client.get_open_orders() does: it raises, or returns a list.
Fetches ==
    {[ok |-> FALSE, orders |-> <<>>]}
    \cup {[ok |-> TRUE, orders |-> os] : os \in OpenOrderLists}

\* cancel_all_open_orders (cancel_orders.py:18-32): `fetched` is what
\* get_open_orders does and `failing` the position of the first order whose
\* client.cancel_order raises (0: none raises).  One try encloses the fetch
\* and the whole for loop: the first exception leaves the loop and is printed.
cancel_all_open_orders(fetched, failing) ==
    IF ~fetched.ok
    THEN [open_orders |-> <<>>, attempts |-> <<>>, error |-> "get_open_orders"]
    ELSE IF fetched.orders = <<>>
    THEN [open_orders |-> <<>>, attempts |-> <<>>, error |-> ""]
    ELSE IF failing = 0
    THEN [open_orders |-> fetched.orders, attempts |-> fetched.orders, error |-> ""]
    ELSE [open_orders |-> fetched.orders,
          attempts |-> SubSeq(fetched.orders, 1, failing),
          error |-> "cancel_order"]

\* `python cancel_orders.py` is launched.
InitCancel ==
    /\ DRY_RUN = FALSE
    /\ SHEETS_SECRET = ""
    /\ PRIVATE_KEY \in PrivateKeys
    /\ POLYMARKET_PROXY = Str(TRUE, ProxyLen)
    /\ CHAIN_ID = 137
    /\ SIGNATURE_TYPE = 2
    /\ Idle
    /\ loop_pc = "load"
    /\ open_orders = <<>>
    /\ cancel_attempts = <<>>
    /\ scan_error = ""
    /\ slept = 0

\* The module is loaded (cancel_orders.py:7-16): without PRIVATE_KEY it raises
\* ValueError, and ClobClient(...) raises on a key that is no private key (and
\* may raise on any); the process then exits before the loop is entered.
LoadCancelLoop ==
    /\ loop_pc = "load"
    /\ \E f \in ClientFailures({"none", "construct"}) :
          loop_pc' = IF PRIVATE_KEY.len = 0 \/ f = "construct" THEN "exited"
                     ELSE "scan"
    /\ UNCHANGED <<config, server, open_orders, cancel_attempts, scan_error, slept>>

\* One call of cancel_all_open_orders() from the loop (cancel_orders.py:37).
CancelAllOpenOrders ==
    /\ loop_pc = "scan"
    /\ \E fetched \in Fetches :
        \E failing \in 0..Len(fetched.orders) :
          LET scan == cancel_all_open_orders(fetched, failing)
          IN  /\ open_orders' = scan.open_orders
              /\ cancel_attempts' = scan.attempts
              /\ scan_error' = scan.error
    /\ loop_pc' = "sleep"
    /\ slept' = 0
    /\ UNCHANGED <<config, server>>

\* time.sleep(30) returns and `while True` goes round (cancel_orders.py:36-38).
Sleep ==
    /\ loop_pc = "sleep"
    /\ loop_pc' = "scan"
    /\ slept' = SleepSeconds
    /\ UNCHANGED <<config, server, open_orders, cancel_attempts, scan_error>>

NextCancel ==
    \/ LoadCancelLoop
    \/ CancelAllOpenOrders
    \/ Sleep

\* The process runs: a step that can be taken is taken.
SpecCancel == InitCancel /\ [][NextCancel]_vars /\ WF_vars(NextCancel)

(***************************************************************************)
(* Properties.                                                             *)
(***************************************************************************)
\* The call of `route` has been served.
Done(route) == phase = "done" /\ endpoint = route

\* The caller passes the shared-secret check.
Authorized == SHEETS_SECRET = "" \/ x_api_key = SHEETS_SECRET

\* The body of the served place_order call is field-valid: a side of the
\* enum, a price within [0.5, 99.5] cents, a positive size.
FieldValid ==
    /\ inp.side \in {"BUY", "SELL"}
    /\ inp.price_cents >= 5 /\ inp.price_cents <= 995
    /\ inp.size > 0

\* The notional of the served place_order call, in hundredths of a dollar.
InpNotional == Notional(inp.side, _normalize_price(inp.price_cents), inp.size)

BelowMinimumError == response.status = 400 /\ response.error = "below $1 minimum"

\* C1, as claimed: an authorized, field-valid request whose notional is below
\* 1.0 is rejected with a below-minimum error on the live path, and on the
\* dry-run path is answered ok=true with the normalized order.
C1_GateOnlyWhenLive ==
    (Done("place_order") /\ Authorized /\ FieldValid /\ InpNotional < 100)
        => IF DRY_RUN
           THEN response.ok /\ response.body.dry_run
                /\ response.body.normalized.size = inp.size
           ELSE BelowMinimumError

\* C1, amended: an authorized, field-valid request whose notional is below
\* 1.0 is rejected with the below-minimum error (400) on the live path and on
\* the dry-run path alike, before any outbound call.
C1_GateInBothModes ==
    (Done("place_order") /\ Authorized /\ FieldValid /\ InpNotional < 100)
        => BelowMinimumError /\ ~response.ok /\ calls = <<>>

\* C1's case: price_prob 0.10, size 5, BUY (notional 0.5) rejected in dry-run.
C1_Witness ==
    /\ Done("place_order") /\ Authorized /\ DRY_RUN
    /\ inp.side = "BUY" /\ inp.price_cents = 100 /\ inp.size = 5
    /\ BelowMinimumError

\* C2: in dry-run mode place_order makes no outbound call (directory or
\* trading client), never enters place_live_limit_order and never fails on
\* trading readiness, whatever the configuration; every request that passes
\* the shared-secret check, validation and the notional floor is accepted,
\* and every accepted request is answered dry_run=true with token_id, slug
\* and outcome exactly as given.
C2_DryRunIsLocal ==
    (Done("place_order") /\ DRY_RUN)
        => /\ calls = <<>>
           /\ ~live_order.reached
           /\ ~market_info.resolved
           /\ env = NoEnv
           /\ response.error /= "RuntimeError"
           /\ (Authorized /\ FieldValid /\ InpNotional > 100) => response.ok
           /\ (Authorized /\ FieldValid /\ InpNotional = 100 /\ inp.side = "BUY")
                 => response.ok
           /\ response.ok =>
                /\ response.body.dry_run
                /\ response.body.normalized.token_id = inp.token_id
                /\ response.body.normalized.slug = inp.slug
                /\ response.body.normalized.outcome = inp.outcome

\* C2's case: a dry-run of a slug + outcome request is echoed unresolved under
\* a configuration that is not ready for trading.
C2_Witness ==
    /\ Done("place_order") /\ DRY_RUN
    /\ PRIVATE_KEY = Missing /\ CHAIN_ID = 1 /\ SIGNATURE_TYPE = 0
    /\ inp.token_id = None /\ inp.slug = "will-x" /\ inp.outcome = "no"
    /\ response.ok /\ response.body.dry_run
    /\ response.body.normalized.slug = "will-x"
    /\ response.body.normalized.token_id = None

\* The configuration is not ready for trading: the signing key is missing or
\* not a 66-character 0x string, or the proxy is missing or not a 42-character
\* 0x string, or the chain or the signature type is not an allowed one.
NotReady ==
    \/ PRIVATE_KEY.len = 0 \/ ~PRIVATE_KEY.has0x \/ PRIVATE_KEY.len /= 66
    \/ POLYMARKET_PROXY.len = 0 \/ ~POLYMARKET_PROXY.has0x \/ POLYMARKET_PROXY.len /= 42
    \/ CHAIN_ID \notin {137, 80001, 80002}
    \/ SIGNATURE_TYPE \notin {1, 2}

ConfigurationError == response.status = 500 /\ response.error = "RuntimeError"

\* A live place_order or a cancel_order the handler was entered for by a
\* caller that passes the shared-secret check.
TradingCall ==
    \/ Done("place_order") /\ ~DRY_RUN /\ Authorized /\ FieldValid
    \/ Done("cancel_order") /\ Authorized /\ inp.order_id /= None

\* C4, as claimed: a live place_order or a cancel_order under a configuration
\* that is not ready fails with a configuration error, and no outbound call
\* has been made.
C4_AlwaysConfigurationError ==
    (TradingCall /\ NotReady) => ConfigurationError /\ calls = <<>>

\* C4, amended: a live place_order or a cancel_order under a configuration
\* that is not ready fails without any outbound call and without entering
\* place_live_limit_order; the failure is the configuration error, except
\* that place_order checks the notional floor first and answers a request
\* below it with the below-minimum error.
C4_FailFast ==
    (TradingCall /\ NotReady)
        => /\ ~response.ok
           /\ calls = <<>>
           /\ ~live_order.reached
           /\ env = NoEnv
           /\ Done("cancel_order") => ConfigurationError
           /\ Done("place_order") =>
                 /\ BelowMinimumError \/ ConfigurationError
                 /\ InpNotional < 100 => BelowMinimumError
                 /\ InpNotional > 100 => ConfigurationError

\* C4's case: a live place_order above the floor, naming a slug and an
\* outcome, stopped by an unlisted chain id before the directory is asked.
C4_Witness ==
    /\ Done("place_order") /\ ~DRY_RUN /\ Authorized /\ inp.price_cents = 900
    /\ CHAIN_ID = 1 /\ PRIVATE_KEY = Str(TRUE, 66) /\ POLYMARKET_PROXY = Str(TRUE, 42)
    /\ SIGNATURE_TYPE = 2
    /\ inp.slug = "will-x" /\ inp.outcome = "no" /\ inp.side = "BUY" /\ inp.size = 10
    /\ ConfigurationError /\ calls = <<>>

\* C5: place_live_limit_order is entered, and an order is created or posted,
\* only with a price_prob and a size whose notional is at least 1.0; a request
\* whose notional is below 1.0 never reaches it.
C5_FloorBeforeSubmission ==
    Done("place_order") =>
        /\ live_order.reached =>
              /\ Notional(live_order.side, live_order.price, live_order.size) >= 100
              /\ live_order.side = inp.side
              /\ live_order.size = inp.size
              /\ live_order.price = _normalize_price(inp.price_cents)
        /\ Made(calls, {CredsCall, CreateOrderCall, PostOrderCall}) => live_order.reached
        /\ (FieldValid /\ InpNotional < 100) => ~live_order.reached

\* C5's case: an order of notional exactly 1.0 (BUY at 0.10 for 10 shares) is
\* posted.
C5_Witness ==
    /\ Done("place_order") /\ live_order.reached
    /\ live_order.side = "BUY" /\ live_order.price = 10 /\ live_order.size = 10
    /\ Made(calls, {PostOrderCall}) /\ response.ok

\* A call of a protected route that FastAPI hands to its handler.
ProtectedCall ==
    \/ Done("place_order") /\ inp.side \in {"BUY", "SELL"}
          /\ inp.price_cents >= 5 /\ inp.price_cents <= 995 /\ inp.size > 0
    \/ Done("order_status") /\ inp.order_id /= None
    \/ Done("cancel_order") /\ inp.order_id /= None
    \/ Done("orders_open")
    \/ Done("fills")

\* C3, as claimed: on the protected routes, with SHEETS_SECRET non-empty a
\* call whose x-api-key is absent or differs is answered 401 and has made no
\* outbound call; with SHEETS_SECRET empty no call is answered 401.
C3_SharedSecretOnly401 ==
    ProtectedCall =>
        /\ (SHEETS_SECRET /= "" /\ x_api_key /= SHEETS_SECRET)
              => response.status = 401 /\ calls = <<>>
        /\ SHEETS_SECRET = "" => response.status /= 401

\* C7, as claimed: every accepted place_order request, in dry-run as in live
\* mode, has a non-empty token_id or both a non-empty slug and a non-empty
\* outcome, and a request with neither is rejected with a 4xx error (by a
\* service whose configuration is ready for trading, from a caller that
\* passes the shared-secret check).
C7_AcceptedIsIdentified ==
    Done("place_order") =>
        /\ response.ok =>
              (Truthy(inp.token_id) \/ (Truthy(inp.slug) /\ Truthy(inp.outcome)))
        /\ (~Truthy(inp.token_id) /\ ~(Truthy(inp.slug) /\ Truthy(inp.outcome))
            /\ Authorized /\ FieldValid /\ ~NotReady)
              => response.status \in 400..499

\* C8, as claimed: in dry-run, side "buy", price_cents 34.5, size 10, token_id
\* "abc" is accepted and answered ok=true, dry_run=true, normalized.side "BUY",
\* normalized.size 10, normalized.price_prob 0.345 (price_prob is held in
\* hundredths, price_cents in tenths of a cent: 0.345 is 10 * price_prob = 345).
C8_DryRunScenario ==
    (Done("place_order") /\ DRY_RUN /\ Authorized
     /\ inp = Body("abc", None, None, "buy", 345, 10))
        => /\ response.ok
           /\ response.body.dry_run
           /\ response.body.normalized.side = "BUY"
           /\ response.body.normalized.size = 10
           /\ 10 * response.body.normalized.price_prob = 345

\* The order_status handler was entered.
StatusCall == Done("order_status") /\ Authorized /\ inp.order_id /= None

\* C9: order_status attempts the REST fallback if and only if the primary
\* path failed (import, construction, credential derivation or get_order);
\* a 200 from the fallback is returned as success; when the fallback fails
\* too (network error or non-200) the caller gets one 500 that carries the
\* primary cause and the fallback cause.
C9_StatusFallback ==
    StatusCall =>
        /\ env.client \in {"none", "import", "construct", "creds", "op"}
        /\ Made(calls, {RestOrderCall}) <=> env.client /= "none"
        /\ env.client = "none" =>
              response.ok /\ response.body.order = "client.get_order"
        /\ (env.client /= "none" /\ env.rest = Http(200)) =>
              response.ok /\ response.body.order = "r.json()"
        /\ (env.client /= "none" /\ env.rest /= Http(200)) =>
              /\ response.status = 500
              /\ response.error = "order_status failed"
              /\ response.cause = env.client
              /\ response.fallback =
                    (IF env.rest = NetErr THEN "RequestException" ELSE "CLOB status")

\* C9's case: credential derivation raised, the fallback was answered 401, and
\* the caller got the combined error.
C9_Witness ==
    /\ StatusCall /\ env.client = "creds" /\ env.rest = Http(401)
    /\ calls = <<CredsCall, RestOrderCall>>
    /\ response.status = 500 /\ response.cause = "creds"
    /\ response.fallback = "CLOB status"

\* The orders_open handler was entered.
OpenCall == Done("orders_open") /\ Authorized

OrdersQueries == {RestOrdersCall("proxy"), RestOrdersCall("eoa")}

\* C10, as claimed: whenever the primary path of orders_open fails, at any of
\* its steps (client construction, credential derivation, get_open_orders),
\* the HTTP fallback by address and status=OPEN is attempted before an error
\* is returned, and its 200 answer is returned as success.
C10_FallbackOnAnyFailure ==
    (OpenCall /\ env.client \in {"construct", "creds", "op"})
        => /\ Made(calls, OrdersQueries)
           /\ env.rest = Http(200) => response.ok

\* C10, amended: orders_open attempts the HTTP fallback (by the trading
\* address, the proxy when one is configured, and status=OPEN) exactly when
\* get_open_orders itself fails, and a 200 answer of the fallback is returned
\* as success; when the client cannot be imported or built or credentials
\* cannot be derived, it answers 500 without attempting the fallback.
C10_FallbackOnGetOpenOrders ==
    OpenCall =>
        /\ Made(calls, OrdersQueries) <=> env.client = "op"
        /\ env.client = "op" =>
              /\ calls = <<CredsCall, GetOpenOrdersCall,
                           RestOrdersCall(IF POLYMARKET_PROXY.len > 0
                                          THEN "proxy" ELSE "eoa")>>
              /\ response.ok <=> env.rest = Http(200)
              /\ response.ok => response.body.orders = "r.json()"
        /\ env.client \in {"import", "construct", "creds"} =>
              /\ response.status = 500
              /\ response.error = "orders_open failed"
              /\ response.cause = env.client

\* C10's case: get_open_orders raised, the fallback query by the proxy
\* address was answered 200 and returned.
C10_Witness ==
    /\ OpenCall /\ env.client = "op" /\ env.rest = Http(200)
    /\ calls = <<CredsCall, GetOpenOrdersCall, RestOrdersCall("proxy")>>
    /\ response.ok /\ response.body.orders = "r.json()"

\* The directory answer a served resolve call met, as records.
Data == env.gamma.data.items

\* The token ids and the outcome names of record k of the answer, decoded.
TokensAt(k) == _as_list(Data[k].clobTokenIds)
NamesAt(k) ==
    LET a == _as_list(Data[k].outcomes)
        b == _as_list(Data[k].outcomeNames)
        c == _as_list(Data[k].shortOutcomes)
        given == IF a /= <<>> THEN a ELSE IF b /= <<>> THEN b ELSE c
    IN  IF given /= <<>> THEN given ELSE <<"Yes", "No">>

\* Name n is the requested outcome, case-insensitively and exactly.
IsRequested(n) ==
    Lower(Strip(n)) = Lower(Strip(IF inp.outcome = None THEN "" ELSE inp.outcome))

\* Record k is the first record of the answer with a non-empty token-id list.
IsFirstWithTokens(k) ==
    /\ k \in 1..Len(Data)
    /\ TokensAt(k) /= <<>>
    /\ \A j \in 1..(k - 1) : TokensAt(j) = <<>>

\* C6: a resolution uses only the first record, in response order, whose
\* token-id list is non-empty: slug, outcome name and token id all come from
\* that record; the outcome is matched case-insensitively and exactly; the
\* result carries the index of the first matching name and the token id at
\* that index.  When that record has no matching name the resolution
\* fails, whatever later records hold.  For outcomes
\* ["Yes","No"], clobTokenIds ["111","222"], outcome "no": "222", index 1.
C6_FirstRecordExactMatch ==
    (Done("resolve") /\ env.gamma.kind = "http" /\ env.gamma.status = 200) =>
        /\ market_info.resolved =>
              \E k \in 1..Len(Data) :
                  /\ IsFirstWithTokens(k)
                  /\ market_info.market_slug = Data[k].slug
                  /\ LET i == market_info.outcome_index + 1
                     IN  /\ i \in 1..Len(NamesAt(k))
                         /\ IsRequested(NamesAt(k)[i])
                         /\ \A j \in 1..(i - 1) : ~IsRequested(NamesAt(k)[j])
                         /\ market_info.outcome_name = NamesAt(k)[i]
                         /\ i \in 1..Len(TokensAt(k))
                         /\ market_info.token_id = TokensAt(k)[i]
        /\ \A k \in 1..Len(Data) :
              (IsFirstWithTokens(k)
               /\ \A i \in 1..Len(NamesAt(k)) : ~IsRequested(NamesAt(k)[i]))
                  => ~market_info.resolved /\ ~response.ok
        /\ (Data = <<RecPlain>> /\ inp.outcome = "no") =>
              /\ market_info.resolved
              /\ market_info.token_id = "222"
              /\ market_info.outcome_index = 1

\* C6's case: the first record has no token ids, the second is the plain
\* binary market, and "NO " resolves to its second token.
C6_Witness ==
    /\ Done("resolve") /\ Data = <<RecNoTokens, RecPlain>> /\ inp.outcome = "NO "
    /\ market_info.resolved /\ market_info.token_id = "222"
    /\ market_info.outcome_index = 1 /\ market_info.market_slug = "will-x"

\* The requested outcome matches a name of record k of the answer.
MatchesIn(k) == \E i \in 1..Len(NamesAt(k)) : IsRequested(NamesAt(k)[i])

\* C11, as claimed: for every 200 directory response and every outcome name,
\* a resolution ends in exactly one of: a MarketInfo; the not-found error
\* (the response is empty or no list); the no-token-ids error (no record has
\* a non-empty token-id list); the outcome-not-found error listing the
\* available names.  When the outcome matches a name of the chosen record
\* (the ["Yes", "No"] default and an outcome list longer than the token-id
\* list included) the token id at the matched index exists and is returned;
\* no other kind of failure occurs.
C11_ResolverTotality ==
    (Done("resolve") /\ env.gamma.kind = "http" /\ env.gamma.status = 200) =>
        /\ \/ /\ response.ok /\ market_info.resolved
              /\ response.body = market_info
           \/ /\ response.status = 404 /\ response.error = "No markets returned"
              /\ (env.gamma.data.type /= "list" \/ Data = <<>>)
           \/ /\ response.status = 404
              /\ response.error = "Could not find outcome token IDs"
              /\ env.gamma.data.type = "list"
              /\ \A k \in 1..Len(Data) : TokensAt(k) = <<>>
           \/ /\ response.status = 404 /\ response.error = "Outcome not found"
              /\ \E k \in 1..Len(Data) :
                    /\ IsFirstWithTokens(k)
                    /\ response.available = NamesAt(k)
                    /\ ~MatchesIn(k)
        /\ (env.gamma.data.type = "list"
            /\ \E k \in 1..Len(Data) : IsFirstWithTokens(k) /\ MatchesIn(k))
              => /\ market_info.resolved
                 /\ \E k \in 1..Len(Data) :
                       /\ IsFirstWithTokens(k)
                       /\ market_info.outcome_index + 1 \in 1..Len(TokensAt(k))
                       /\ market_info.token_id
                             = TokensAt(k)[market_info.outcome_index + 1]

\* A scan of the cancel loop has ended and the loop sleeps.
ScanEnded == loop_pc = "sleep"

\* Every order the scan fetched had client.cancel_order called for it, in the
\* order fetched.
EveryFetchedOrderAttempted == cancel_attempts = open_orders

\* Once entered, the loop is never left, and after a scan that logged an
\* error the next scan starts when SleepSeconds have passed.
LoopKeepsRunning ==
    /\ [][(loop_pc \in {"scan", "sleep"}) => (loop_pc' \in {"scan", "sleep"})]_vars
    /\ [](loop_pc = "scan" => slept \in {0, SleepSeconds})
    /\ (ScanEnded /\ scan_error /= "") ~> (loop_pc = "scan" /\ slept = SleepSeconds)
    /\ (loop_pc = "scan") ~> ScanEnded

\* C12, as claimed: within one scan over the fetched open orders a failure
\* while cancelling one order does not prevent a cancel attempt for each of
\* the remaining orders of that scan: every fetched open order has a cancel
\* attempted in that scan, whichever earlier cancels failed; and the enclosing
\* loop keeps running (next scan after the fixed interval) after any error.
C12_CancelEachIndependently ==
    /\ [](ScanEnded => EveryFetchedOrderAttempted)
    /\ LoopKeepsRunning

====
